---- MODULE Spec2Model ----
(***************************************************************************)
(* A model of utils/swift_build_support/swift_build_support/products/      *)
(* tensorflow.py (the TensorFlowSwiftAPIs and TensorFlow product adapters) *)
(* and of utils/update_checkout/tests/test_update_option.py.               *)
(*                                                                         *)
(* The state is what the adapters act on: the external processes they      *)
(* start, the command lines they issue, the build directory, and the two   *)
(* library paths under <tensorflow>/bazel-bin/tensorflow.  A blocking      *)
(* shell.call is two steps (the command is issued, the command exits with  *)
(* some status), so that "which processes are running" is a state.         *)
(***************************************************************************)
EXTENDS Integers, Sequences, FiniteSets, TLC

\* Exit statuses of external commands range over 0..MaxExit.
MaxExit == 2

ExitCodes == 0..MaxExit

\* Host-target strings handed to build(): recognized ones, an exact prefix,
\* a too-short prefix, the empty string, a wrong case, a non-prefix match.
HostTargets ==
  { "macosx-x86_64", "linux-x86_64", "linux", "freebsd-x86_64",
    "macos", "", "Linux-x86_64", "xlinux" }

(***************************************************************************)
(* Strings and paths.                                                      *)
(***************************************************************************)

\* str.startswith(prefix)
startswith(s, prefix) ==
  /\ Len(s) >= Len(prefix)
  /\ SubSeq(s, 1, Len(prefix)) = prefix

\* os.path.join(a, b) for a relative component b
os_path_join(a, b) == a \o "/" \o b

\* The components of an absolute path, "/a/b" -> <<"a", "b">>.
RECURSIVE SplitFrom(_, _, _)
SplitFrom(s, i, cur) ==
  IF i > Len(s) THEN (IF cur = "" THEN <<>> ELSE <<cur>>)
  ELSE IF SubSeq(s, i, i) = "/"
       THEN (IF cur = "" THEN <<>> ELSE <<cur>>) \o SplitFrom(s, i + 1, "")
       ELSE SplitFrom(s, i + 1, cur \o SubSeq(s, i, i))

\* Resolution of "." and ".." components, left to right.
RECURSIVE Resolve(_, _)
Resolve(done, rest) ==
  IF rest = <<>> THEN done
  ELSE IF Head(rest) = "." THEN Resolve(done, Tail(rest))
  ELSE IF Head(rest) = ".."
       THEN Resolve(IF done = <<>> THEN <<>> ELSE SubSeq(done, 1, Len(done) - 1),
                    Tail(rest))
       ELSE Resolve(Append(done, Head(rest)), Tail(rest))

RECURSIVE JoinAbs(_)
JoinAbs(comps) ==
  IF comps = <<>> THEN "" ELSE "/" \o Head(comps) \o JoinAbs(Tail(comps))

\* os.path.realpath(p) of an absolute path in a tree that holds no symbolic
\* link among the directories named (the source root is a plain directory).
os_path_realpath(p) ==
  LET comps == Resolve(<<>>, SplitFrom(p, 1, ""))
  IN  IF comps = <<>> THEN "/" ELSE JoinAbs(comps)

(***************************************************************************)
(* The products and what the orchestrator hands them.                      *)
(***************************************************************************)

TensorFlowSwiftAPIs_product_source_name == "tensorflow-swift-apis"

TensorFlow_product_source_name == "tensorflow"

\* Product.source_dir / Product.build_dir: one directory per product under
\* the workspace's source root and build root.
source_dir(name) == os_path_join("/ws", name)

build_dir(name) == os_path_join("/build", name)

\* self.toolchain: resolved paths of the build tools.
toolchain == [cmake |-> "/tc/cmake", ninja |-> "/tc/ninja", bazel |-> "/tc/bazel"]

\* targets.toolchain_path(install_destdir, install_prefix): the root of the
\* built toolchain, which is the install destination itself where no
\* platform toolchain prefix is inserted.
toolchain_path(install_destdir, install_prefix) == install_destdir

\* The value standing for "raise RuntimeError" in the name selections below.
Raises == "<RuntimeError>"

\* TensorFlowSwiftAPIs.build: lib_name
lib_name_no_else(host_target) ==
  IF startswith(host_target, "macosx") THEN "libtensorflow.dylib"
  ELSE "libtensorflow.so"

lib_name_same_suffix(host_target) ==
  IF startswith(host_target, "macosx") THEN "libtensorflow.so"
  ELSE IF startswith(host_target, "linux") THEN "libtensorflow.so"
  ELSE Raises

lib_name(host_target) ==
  IF startswith(host_target, "macosx") THEN "libtensorflow.dylib"
  ELSE IF startswith(host_target, "linux") THEN "libtensorflow.so"
  ELSE Raises

\* TensorFlow.build: suffixed_lib_name
suffixed_lib_name(host_target) ==
  IF startswith(host_target, "macosx") THEN "libtensorflow.2.1.0.dylib"
  ELSE IF startswith(host_target, "linux") THEN "libtensorflow.so.2.1.0"
  ELSE Raises

\* TensorFlow.build: unsuffixed_lib_name
unsuffixed_lib_name_no_else(host_target) ==
  IF startswith(host_target, "macosx") THEN "libtensorflow.dylib"
  ELSE "libtensorflow.so"

unsuffixed_lib_name(host_target) ==
  IF startswith(host_target, "macosx") THEN "libtensorflow.dylib"
  ELSE IF startswith(host_target, "linux") THEN "libtensorflow.so"
  ELSE Raises

\* TensorFlowSwiftAPIs.build: tensorflow_source_dir
tensorflow_source_dir ==
  os_path_realpath(
    os_path_join(os_path_join(source_dir(TensorFlowSwiftAPIs_product_source_name),
                              ".."), "tensorflow"))

\* <dir>/bazel-bin/tensorflow/<name>
bazel_bin_path(dir, name) ==
  os_path_join(os_path_join(os_path_join(dir, "bazel-bin"), "tensorflow"), name)

\* TensorFlowSwiftAPIs.build: the value of -D TensorFlow_LIBRARY
TensorFlow_LIBRARY(host_target) ==
  bazel_bin_path(tensorflow_source_dir, lib_name(host_target))

\* TensorFlow.build: the link's target and the link's own path
symlink_source(host_target) ==
  bazel_bin_path(source_dir(TensorFlow_product_source_name),
                 suffixed_lib_name(host_target))

symlink_path(host_target) ==
  bazel_bin_path(source_dir(TensorFlow_product_source_name),
                 unsuffixed_lib_name(host_target))

configure_script_path ==
  os_path_join(source_dir(TensorFlow_product_source_name), "configure")

\* The two library paths of the model's file system.
LibPaths ==
  { bazel_bin_path(source_dir(TensorFlow_product_source_name), n) :
      n \in {"libtensorflow.dylib", "libtensorflow.so"} }

\* What a library path may hold before any build: nothing, a regular file,
\* a directory, a link to the versioned file of its platform, a stale link.
NoEntry == [kind |-> "none", target |-> ""]

LinkTo(t) == [kind |-> "link", target |-> t]

StaleTarget == "/ws/tensorflow/bazel-bin/tensorflow/libtensorflow.1.15.0"

CurrentTarget(p) ==
  IF p = bazel_bin_path(source_dir(TensorFlow_product_source_name),
                        "libtensorflow.dylib")
  THEN symlink_source("macosx") ELSE symlink_source("linux")

InitialEntries(p) ==
  { NoEntry, [kind |-> "file", target |-> ""], [kind |-> "dir", target |-> ""],
    LinkTo(CurrentTarget(p)), LinkTo(StaleTarget) }

InitialBuildDirs ==
  { [kind |-> "absent", files |-> {}], [kind |-> "file", files |-> {}],
    [kind |-> "dir", files |-> {}],
    [kind |-> "dir", files |-> {"CMakeCache.txt", "artifacts"}] }

(***************************************************************************)
(* Command lines.                                                          *)
(***************************************************************************)

\* TensorFlowSwiftAPIs.build: the cmake generate command
cmake_generate_argv(a, host_target) ==
  LET swiftc == os_path_join(os_path_join(os_path_join(
                  toolchain_path(a.install_destdir, a.install_prefix),
                  "usr"), "bin"), "swiftc")
  IN << "-G", "Ninja",
        "-D", "BUILD_SHARED_LIBS=YES",
        "-D", "CMAKE_INSTALL_PREFIX=" \o a.install_destdir \o "/usr",
        "-D", "CMAKE_MAKE_PROGRAM=" \o toolchain.ninja,
        "-D", "CMAKE_Swift_COMPILER=" \o swiftc,
        "-D", "TensorFlow_INCLUDE_DIR=" \o tensorflow_source_dir,
        "-D", "TensorFlow_LIBRARY=" \o TensorFlow_LIBRARY(host_target),
        "-D", "CMAKE_Swift_FLAGS=" \o "-L" \o
                os_path_join(os_path_join(tensorflow_source_dir, "bazel-bin"),
                             "tensorflow"),
        "-B", build_dir(TensorFlowSwiftAPIs_product_source_name),
        "-S", source_dir(TensorFlowSwiftAPIs_product_source_name) >>

\* TensorFlowSwiftAPIs.build: the cmake --build command
cmake_build_argv ==
  << "--build", build_dir(TensorFlowSwiftAPIs_product_source_name) >>

\* TensorFlowSwiftAPIs.install
cmake_install_argv ==
  << "--build", build_dir(TensorFlowSwiftAPIs_product_source_name),
     "--target", "install" >>

\* TensorFlow.build: the bazel command
bazel_build_argv ==
  << "build", "-c", "opt", "--define", "framework_shared_object=false",
     "//tensorflow:tensorflow" >>

\* SchemeMockTestCase's fixture paths
update_checkout_path == "/ws/swift/utils/update-checkout"

config_path == "/tmp/test-config.json"

source_root == "/tmp/test-source-root"

\* test_update_option: the arguments after the script's path
test_update_option_argv_no_update ==
  << "--config", config_path, "--source-root", source_root, "--clone" >>

test_update_option_argv ==
  << "--config", config_path, "--source-root", source_root,
     "--clone", "--update" >>

(***************************************************************************)
(* State.                                                                  *)
(***************************************************************************)

VARIABLES
  args,      \* self.args: the orchestrator's flags and install paths
  op,        \* the method the orchestrator called last
  host,      \* its host_target argument
  pc,        \* the statement that method is at; "idle" between calls
  result,    \* how the call ended: returned, or the error it ended with
  log,       \* the external commands the call has started, in order
  running,   \* the programs that have a live process started by the code
  cwd,       \* the working directory: "orig" or the build directory
  buildDir,  \* what is at TensorFlowSwiftAPIs' build_dir
  lib,       \* what is at each unsuffixed library path
  dir0,      \* buildDir when the call began
  lib0       \* lib when the call began

vars ==
  << args, op, host, pc, result, log, running, cwd, buildDir, lib, dir0, lib0 >>

APIsBuildDir == build_dir(TensorFlowSwiftAPIs_product_source_name)

Init ==
  /\ args \in { [ build_tensorflow_swift_apis |-> b,
                  install_tensorflow_swift_apis |-> i,
                  install_destdir |-> "/destdir",
                  install_prefix |-> "/usr" ] : b \in BOOLEAN, i \in BOOLEAN }
  /\ op = "none"
  /\ host = ""
  /\ pc = "idle"
  /\ result = "none"
  /\ log = << >>
  /\ running = {}
  /\ cwd = "orig"
  /\ buildDir \in InitialBuildDirs
  /\ lib \in { f \in [LibPaths -> UNION { InitialEntries(p) : p \in LibPaths }] :
                 \A p \in LibPaths : f[p] \in InitialEntries(p) }
  /\ dir0 = buildDir
  /\ lib0 = lib

\* The orchestrator calls method o with host target h.
Enter(o, h) ==
  /\ pc = "idle"
  /\ op' = o
  /\ host' = h
  /\ dir0' = buildDir
  /\ lib0' = lib

(***************************************************************************)
(* shell.call, shell.Popen and SchemeMockTestCase.call.                    *)
(***************************************************************************)

Started(command, argv, st) ==
  [cmd |-> command, argv |-> argv, st |-> st, code |-> -1]

\* shell.call(command): the command is started and the caller waits for it.
shell_call(command, argv) ==
  /\ log' = Append(log, Started(command, argv, "running"))
  /\ running' = running \cup {command}

\* shell.Popen(command): the command is started and the caller goes on.
shell_Popen(command, argv) ==
  /\ log' = Append(log, Started(command, argv, "popen"))
  /\ running' = running \cup {command}

\* The command being waited for exits with status code.
Exits(code) ==
  /\ log' = [log EXCEPT ![Len(log)] = [@ EXCEPT !.st = "exited", !.code = code]]
  /\ running' = running \ {log[Len(log)].cmd}

\* shell.call returns to its caller on status 0 and ends the step otherwise.
shell_call_returns(code, next) ==
  IF code = 0
  THEN pc' = next /\ UNCHANGED result
  ELSE pc' = "idle" /\ result' = "ToolFailed"

\* SchemeMockTestCase.call returns on status 0 and fails the test otherwise.
scheme_mock_call_returns(code) ==
  /\ pc' = "idle"
  /\ result' = IF code = 0 THEN "passed" ELSE "failed"

(***************************************************************************)
(* TensorFlowSwiftAPIs.                                                    *)
(***************************************************************************)

TensorFlowSwiftAPIs_should_build(host_target) ==
  args.build_tensorflow_swift_apis

TensorFlowSwiftAPIs_should_test(host_target) == FALSE

TensorFlowSwiftAPIs_should_install_build_flag(host_target) ==
  args.build_tensorflow_swift_apis

TensorFlowSwiftAPIs_should_install(host_target) ==
  args.install_tensorflow_swift_apis

\* build(), up to the selection of lib_name
TensorFlowSwiftAPIs_build_begin(h) ==
  /\ Enter("TensorFlowSwiftAPIs.build", h)
  /\ log' = << >>
  /\ IF lib_name(h) = Raises
     THEN pc' = "idle" /\ result' = "RuntimeError"
     ELSE pc' = "A_makedirs" /\ result' = "running"
  /\ UNCHANGED << args, running, cwd, buildDir, lib >>

\* try: os.makedirs(self.build_dir) except OSError: pass
TensorFlowSwiftAPIs_build_makedirs_uncaught ==
  /\ pc = "A_makedirs"
  /\ IF buildDir.kind = "absent"
     THEN /\ buildDir' = [kind |-> "dir", files |-> {}]
          /\ pc' = "A_pushd"
          /\ UNCHANGED result
     ELSE /\ UNCHANGED buildDir
          /\ pc' = "idle"
          /\ result' = "OSError"
  /\ UNCHANGED << args, op, host, log, running, cwd, lib, dir0, lib0 >>

TensorFlowSwiftAPIs_build_makedirs ==
  /\ pc = "A_makedirs"
  /\ buildDir' = IF buildDir.kind = "absent"
                 THEN [kind |-> "dir", files |-> {}]
                 ELSE buildDir
  /\ pc' = "A_pushd"
  /\ UNCHANGED << args, op, host, result, log, running, cwd, lib, dir0, lib0 >>

\* with shell.pushd(self.build_dir): os.chdir fails on what is no directory
TensorFlowSwiftAPIs_build_pushd ==
  /\ pc = "A_pushd"
  /\ IF buildDir.kind = "dir"
     THEN cwd' = APIsBuildDir /\ pc' = "A_cmake_generate" /\ UNCHANGED result
     ELSE UNCHANGED cwd /\ pc' = "idle" /\ result' = "OSError"
  /\ UNCHANGED << args, op, host, log, running, buildDir, lib, dir0, lib0 >>

\* shell.call([cmake, '-G', 'Ninja', ...]) is issued
TensorFlowSwiftAPIs_build_generate_nowait ==
  /\ pc = "A_cmake_generate"
  /\ shell_Popen(toolchain.cmake, cmake_generate_argv(args, host))
  /\ pc' = "A_cmake_build"
  /\ UNCHANGED << args, op, host, result, cwd, buildDir, lib, dir0, lib0 >>

TensorFlowSwiftAPIs_build_generate ==
  /\ pc = "A_cmake_generate"
  /\ shell_call(toolchain.cmake, cmake_generate_argv(args, host))
  /\ pc' = "A_cmake_generate_wait"
  /\ UNCHANGED << args, op, host, result, cwd, buildDir, lib, dir0, lib0 >>

\* cmake writes the build tree: fully when it succeeds, possibly when not.
ToolWrote(code, dir, file) ==
  IF code = 0
  THEN { [dir EXCEPT !.files = @ \cup {file}] }
  ELSE { dir, [dir EXCEPT !.files = @ \cup {file}] }

\* ... and exits
TensorFlowSwiftAPIs_build_generate_exit ==
  /\ pc = "A_cmake_generate_wait"
  /\ \E code \in ExitCodes :
       /\ Exits(code)
       /\ shell_call_returns(code, "A_cmake_build")
       /\ buildDir' \in ToolWrote(code, buildDir, "CMakeCache.txt")
  /\ UNCHANGED << args, op, host, cwd, lib, dir0, lib0 >>

\* shell.call([cmake, '--build', build_dir]) is issued
TensorFlowSwiftAPIs_build_build ==
  /\ pc = "A_cmake_build"
  /\ shell_call(toolchain.cmake, cmake_build_argv)
  /\ pc' = "A_cmake_build_wait"
  /\ UNCHANGED << args, op, host, result, cwd, buildDir, lib, dir0, lib0 >>

\* ... and exits; on success the with block is left and build() returns
TensorFlowSwiftAPIs_build_build_exit ==
  /\ pc = "A_cmake_build_wait"
  /\ \E code \in ExitCodes :
       /\ Exits(code)
       /\ buildDir' \in ToolWrote(code, buildDir, "artifacts")
       /\ IF code = 0
          THEN pc' = "idle" /\ result' = "returned" /\ cwd' = "orig"
          ELSE shell_call_returns(code, "idle") /\ UNCHANGED cwd
  /\ UNCHANGED << args, op, host, lib, dir0, lib0 >>

\* test(): pass
TensorFlowSwiftAPIs_test_runs_ctest(h) ==
  /\ Enter("TensorFlowSwiftAPIs.test", h)
  /\ log' = << Started(toolchain.cmake, << "--build", APIsBuildDir,
                                           "--target", "test" >>, "running") >>
  /\ running' = running \cup {toolchain.cmake}
  /\ pc' = "I_wait"
  /\ result' = "running"
  /\ UNCHANGED << args, cwd, buildDir, lib >>

TensorFlowSwiftAPIs_test(h) ==
  /\ Enter("TensorFlowSwiftAPIs.test", h)
  /\ log' = << >>
  /\ pc' = "idle"
  /\ result' = "returned"
  /\ UNCHANGED << args, running, cwd, buildDir, lib >>

\* install(): shell.call([cmake, '--build', build_dir, '--target', 'install'])
TensorFlowSwiftAPIs_install(h) ==
  /\ Enter("TensorFlowSwiftAPIs.install", h)
  /\ log' = << Started(toolchain.cmake, cmake_install_argv, "running") >>
  /\ running' = running \cup {toolchain.cmake}
  /\ pc' = "I_wait"
  /\ result' = "running"
  /\ UNCHANGED << args, cwd, buildDir, lib >>

TensorFlowSwiftAPIs_install_exit ==
  /\ pc = "I_wait"
  /\ \E code \in ExitCodes :
       /\ Exits(code)
       /\ IF code = 0
          THEN pc' = "idle" /\ result' = "returned"
          ELSE shell_call_returns(code, "idle")
  /\ UNCHANGED << args, op, host, cwd, buildDir, lib, dir0, lib0 >>

(***************************************************************************)
(* TensorFlow.                                                             *)
(***************************************************************************)

TensorFlow_should_build(host_target) == args.build_tensorflow_swift_apis

TensorFlow_should_test(host_target) == FALSE

TensorFlow_should_install(host_target) == FALSE

\* build(): yes_process = shell.Popen(['yes', ''], stdout=subprocess.PIPE)
TensorFlow_build_begin(h) ==
  /\ Enter("TensorFlow.build", h)
  /\ log' = << Started("yes", << "" >>, "popen") >>
  /\ running' = running \cup {"yes"}
  /\ pc' = "T_configure"
  /\ result' = "running"
  /\ UNCHANGED << args, cwd, buildDir, lib >>

\* yes writes until its pipe breaks or it is killed; nobody waits for it.
yes_exits ==
  /\ "yes" \in running
  /\ running' = running \ {"yes"}
  /\ UNCHANGED << args, op, host, pc, result, log, cwd, buildDir, lib, dir0, lib0 >>

\* shell.call([configure_script_path], stdin=yes_process.stdout) is issued
TensorFlow_build_configure ==
  /\ pc = "T_configure"
  /\ shell_call(configure_script_path, << >>)
  /\ pc' = "T_configure_wait"
  /\ UNCHANGED << args, op, host, result, cwd, buildDir, lib, dir0, lib0 >>

\* ... and exits
TensorFlow_build_configure_exit ==
  /\ pc = "T_configure_wait"
  /\ \E code \in ExitCodes :
       /\ Exits(code)
       /\ shell_call_returns(code, "T_bazel")
  /\ UNCHANGED << args, op, host, cwd, buildDir, lib, dir0, lib0 >>

\* shell.call([bazel, "build", ...]) is issued
TensorFlow_build_bazel ==
  /\ pc = "T_bazel"
  /\ shell_call(toolchain.bazel, bazel_build_argv)
  /\ pc' = "T_bazel_wait"
  /\ UNCHANGED << args, op, host, result, cwd, buildDir, lib, dir0, lib0 >>

\* ... and exits
TensorFlow_build_bazel_exit_unchecked ==
  /\ pc = "T_bazel_wait"
  /\ \E code \in ExitCodes :
       /\ Exits(code)
       /\ shell_call_returns(0, "T_names")
  /\ UNCHANGED << args, op, host, cwd, buildDir, lib, dir0, lib0 >>

TensorFlow_build_bazel_exit ==
  /\ pc = "T_bazel_wait"
  /\ \E code \in ExitCodes :
       /\ Exits(code)
       /\ shell_call_returns(code, "T_names")
  /\ UNCHANGED << args, op, host, cwd, buildDir, lib, dir0, lib0 >>

\* the selection of suffixed_lib_name and unsuffixed_lib_name
TensorFlow_build_names ==
  /\ pc = "T_names"
  /\ IF unsuffixed_lib_name(host) = Raises
     THEN pc' = "idle" /\ result' = "RuntimeError"
     ELSE pc' = "T_unlink" /\ UNCHANGED result
  /\ UNCHANGED << args, op, host, log, running, cwd, buildDir, lib, dir0, lib0 >>

\* os.unlink(path): removes a file or a link, raises OSError otherwise
os_unlink(fs, path) ==
  IF path \in DOMAIN fs /\ fs[path].kind \in {"file", "link"}
  THEN [fs EXCEPT ![path] = NoEntry]
  ELSE fs

\* os.symlink(src, dst) on a file system where dst is free
os_symlink(fs, src, dst) == [fs EXCEPT ![dst] = LinkTo(src)]

\* try: os.unlink(<unsuffixed path>) except OSError: pass
TensorFlow_build_unlink_skipped ==
  /\ pc = "T_unlink"
  /\ pc' = "T_symlink"
  /\ UNCHANGED << args, op, host, result, log, running, cwd, buildDir, lib,
                  dir0, lib0 >>

TensorFlow_build_unlink ==
  /\ pc = "T_unlink"
  /\ lib' = os_unlink(lib, symlink_path(host))
  /\ pc' = "T_symlink"
  /\ UNCHANGED << args, op, host, result, log, running, cwd, buildDir, dir0, lib0 >>

\* os.symlink(<suffixed path>, <unsuffixed path>): FileExistsError when the
\* unsuffixed path still holds something
TensorFlow_build_symlink ==
  /\ pc = "T_symlink"
  /\ pc' = "idle"
  /\ IF lib[symlink_path(host)].kind = "none"
     THEN /\ lib' = os_symlink(lib, symlink_source(host), symlink_path(host))
          /\ result' = "returned"
     ELSE /\ UNCHANGED lib
          /\ result' = "OSError"
  /\ UNCHANGED << args, op, host, log, running, cwd, buildDir, dir0, lib0 >>

\* test(): pass
TensorFlow_test(h) ==
  /\ Enter("TensorFlow.test", h)
  /\ log' = << >>
  /\ pc' = "idle"
  /\ result' = "returned"
  /\ UNCHANGED << args, running, cwd, buildDir, lib >>

\* install(): pass
TensorFlow_install(h) ==
  /\ Enter("TensorFlow.install", h)
  /\ log' = << >>
  /\ pc' = "idle"
  /\ result' = "returned"
  /\ UNCHANGED << args, running, cwd, buildDir, lib >>

(***************************************************************************)
(* UpdateOptionTestCase.                                                   *)
(***************************************************************************)

\* test_update_option: self.call([update_checkout_path, ...]) is issued
test_update_option ==
  /\ Enter("test_update_option", host)
  /\ log' = << Started(update_checkout_path, test_update_option_argv, "running") >>
  /\ running' = running \cup {update_checkout_path}
  /\ pc' = "U_wait"
  /\ result' = "running"
  /\ UNCHANGED << args, cwd, buildDir, lib >>

\* ... and exits
test_update_option_exit ==
  /\ pc = "U_wait"
  /\ \E code \in ExitCodes :
       /\ Exits(code)
       /\ scheme_mock_call_returns(code)
  /\ UNCHANGED << args, op, host, cwd, buildDir, lib, dir0, lib0 >>

(***************************************************************************)
(* The specification.                                                      *)
(***************************************************************************)

Next ==
  \/ \E h \in HostTargets : TensorFlowSwiftAPIs_build_begin(h)
  \/ TensorFlowSwiftAPIs_build_makedirs
  \/ TensorFlowSwiftAPIs_build_pushd
  \/ TensorFlowSwiftAPIs_build_generate
  \/ TensorFlowSwiftAPIs_build_generate_exit
  \/ TensorFlowSwiftAPIs_build_build
  \/ TensorFlowSwiftAPIs_build_build_exit
  \/ \E h \in HostTargets : TensorFlowSwiftAPIs_test(h)
  \/ \E h \in HostTargets : TensorFlowSwiftAPIs_install(h)
  \/ TensorFlowSwiftAPIs_install_exit
  \/ \E h \in HostTargets : TensorFlow_build_begin(h)
  \/ yes_exits
  \/ TensorFlow_build_configure
  \/ TensorFlow_build_configure_exit
  \/ TensorFlow_build_bazel
  \/ TensorFlow_build_bazel_exit
  \/ TensorFlow_build_names
  \/ TensorFlow_build_unlink
  \/ TensorFlow_build_symlink
  \/ \E h \in HostTargets : TensorFlow_test(h)
  \/ \E h \in HostTargets : TensorFlow_install(h)
  \/ test_update_option
  \/ test_update_option_exit

Spec == Init /\ [][Next]_vars

(***************************************************************************)
(* Properties.                                                             *)
(***************************************************************************)

Recognized(h) == startswith(h, "macosx") \/ startswith(h, "linux")

IsBuild == op \in {"TensorFlowSwiftAPIs.build", "TensorFlow.build"}

\* The i-th command of the call has exited, with a non-zero / zero status.
Failed(i) == log[i].st = "exited" /\ log[i].code # 0

Succeeded(i) == log[i].st = "exited" /\ log[i].code = 0

\* C1: in TensorFlowSwiftAPIs.build, TensorFlowSwiftAPIs.install and
\* TensorFlow.build, a command that exits with a non-zero status is the last
\* command of the step: the step has ended with the tool's failure, and in
\* TensorFlow.build the library paths are as they were when the step began.
C1_AbortOnToolFailure ==
  op \in {"TensorFlowSwiftAPIs.build", "TensorFlowSwiftAPIs.install",
          "TensorFlow.build"} =>
    \A i \in 1..Len(log) :
      Failed(i) =>
        /\ i = Len(log)
        /\ pc = "idle"
        /\ result = "ToolFailed"
        /\ (op = "TensorFlow.build" => lib = lib0)

\* C1 witness: bazel build has failed while the unsuffixed path holds a link.
C1_Witness ==
  /\ op = "TensorFlow.build"
  /\ Recognized(host)
  /\ Len(log) = 3
  /\ log[3].cmd = toolchain.bazel
  /\ Failed(3)
  /\ lib[symlink_path(host)].kind = "link"

\* C2 (as claimed): at most one process started by the adapters runs at any
\* time, and every command of a step, the 'yes' feeder included, has run to
\* completion before the next one is issued.
C2_OneProcessAtATime ==
  /\ Cardinality(running) <= 1
  /\ \A i \in 1..(Len(log) - 1) : log[i].st = "exited"

\* C2 (amended): the commands issued with shell.call are strictly sequential:
\* at most one of them runs at any time, each has exited before the next is
\* issued, in the order configure, bazel build, symlink and cmake generate,
\* cmake --build.  Only 'yes' is started without being waited for, first in
\* TensorFlow.build, and it may run beside configure and bazel.
C2_BlockingCallsSequential ==
  /\ Cardinality(running \ {"yes"}) <= 1
  /\ \A i \in 1..Len(log) :
       /\ log[i].st = "popen" <=> (op = "TensorFlow.build" /\ i = 1)
       /\ log[i].st = "popen" => log[i].cmd = "yes"
       /\ i < Len(log) /\ log[i].st # "popen" => log[i].st = "exited"
       /\ log[i].st = "running" => running \ {"yes"} = {log[i].cmd}
  /\ op = "TensorFlow.build" =>
       /\ Len(log) <= 3
       /\ Len(log) >= 2 => log[2].cmd = configure_script_path
       /\ Len(log) >= 3 => log[3].cmd = toolchain.bazel
       /\ lib # lib0 => Len(log) = 3 /\ log[3].st = "exited"
  /\ op = "TensorFlowSwiftAPIs.build" =>
       /\ Len(log) <= 2
       /\ Len(log) >= 1 => log[1].cmd = toolchain.cmake /\ log[1].argv[1] = "-G"
       /\ Len(log) >= 2 => log[2].cmd = toolchain.cmake /\ log[2].argv[1] = "--build"

\* C2 witness: bazel build runs, configure has exited, 'yes' is still alive.
C2_Witness ==
  /\ op = "TensorFlow.build"
  /\ Len(log) = 3
  /\ log[2].st = "exited"
  /\ log[3].st = "running"
  /\ "yes" \in running

\* C3: when the build directory was absent or a directory as
\* TensorFlowSwiftAPIs.build began, the directory-creation step does not
\* fail, the directory exists after it, a directory that existed is left as
\* it was, and for a recognized host the build goes on to cmake generate.
C3_MakedirsIdempotent ==
  (op = "TensorFlowSwiftAPIs.build" /\ dir0.kind \in {"absent", "dir"}) =>
    /\ result # "OSError"
    /\ pc = "A_pushd" => buildDir.kind = "dir"
    /\ pc = "A_pushd" /\ dir0.kind = "dir" => buildDir = dir0
    /\ pc # "A_makedirs" /\ result # "RuntimeError" => buildDir.kind = "dir"
    /\ pc = "idle" /\ Recognized(host) =>
         /\ Len(log) >= 1
         /\ log[1].argv = cmake_generate_argv(args, host)

\* C3 witness: the build directory existed, with files, and cmake generate
\* has been issued.
C3_Witness ==
  /\ op = "TensorFlowSwiftAPIs.build"
  /\ dir0.kind = "dir"
  /\ dir0.files # {}
  /\ pc = "A_cmake_generate_wait"

\* C4: for a recognized host target, whatever the unsuffixed library path
\* held when TensorFlow.build began (nothing, a file, a link to the current
\* versioned file, a stale link), the symlink step does not fail, a build
\* whose configure and bazel runs succeed returns, and after it the path is
\* a link to the version-suffixed file and the other path is untouched; a
\* build that began with that link in place leaves the same link state.
C4_SymlinkIdempotent ==
  (op = "TensorFlow.build" /\ Recognized(host)
     /\ lib0[symlink_path(host)].kind # "dir") =>
    /\ result # "OSError"
    /\ pc = "idle" /\ Len(log) = 3 /\ Succeeded(3) => result = "returned"
    /\ result = "returned" =>
         /\ lib[symlink_path(host)] = LinkTo(symlink_source(host))
         /\ \A p \in LibPaths \ {symlink_path(host)} : lib[p] = lib0[p]
    /\ result = "returned" /\ lib0[symlink_path(host)] = LinkTo(symlink_source(host))
         => lib = lib0

\* C4 witness: a build returned that began with a link at the unsuffixed path.
C4_Witness ==
  /\ op = "TensorFlow.build"
  /\ Recognized(host)
  /\ result = "returned"
  /\ lib0[symlink_path(host)].kind = "link"

\* C5 (as claimed): a build() that has ended for an unrecognized host target
\* has ended in RuntimeError with the library paths untouched; for a
\* recognized one it has not ended in RuntimeError.
C5_UnknownHostEndsInRuntimeError ==
  (IsBuild /\ pc = "idle") =>
    IF Recognized(host)
    THEN result # "RuntimeError"
    ELSE result = "RuntimeError" /\ lib = lib0

\* C5 (amended): for an unrecognized host target build() never returns and
\* never touches the library paths; TensorFlowSwiftAPIs.build ends in
\* RuntimeError, TensorFlow.build ends in RuntimeError when configure and
\* bazel build both exited with status zero and with the tool's failure
\* otherwise.  For a recognized host target there is no RuntimeError.
C5_UnknownHostNeverCompletes ==
  IsBuild =>
    IF Recognized(host)
    THEN result # "RuntimeError"
    ELSE /\ lib = lib0
         /\ result # "returned"
         /\ pc = "idle" => result \in {"RuntimeError", "ToolFailed"}
         /\ op = "TensorFlowSwiftAPIs.build" => result = "RuntimeError"
         /\ op = "TensorFlow.build" /\ pc = "idle" =>
              /\ result = "RuntimeError" <=> (Len(log) = 3 /\ Succeeded(3))
              /\ result = "ToolFailed" <=> Failed(Len(log))

\* C5 witness: TensorFlow.build raised RuntimeError for an unrecognized host.
C5_Witness ==
  /\ op = "TensorFlow.build"
  /\ ~Recognized(host)
  /\ result = "RuntimeError"

\* C6: should_test is False for every host target, and a call of test() of
\* either adapter returns having started no command and changed neither the
\* build directory nor the library paths.
C6_TestIsNoOp ==
  /\ \A h \in HostTargets :
       ~TensorFlowSwiftAPIs_should_test(h) /\ ~TensorFlow_should_test(h)
  /\ op \in {"TensorFlowSwiftAPIs.test", "TensorFlow.test"} =>
       /\ pc = "idle"
       /\ result = "returned"
       /\ log = << >>
       /\ buildDir = dir0
       /\ lib = lib0

\* C6 witness: test() was called on a built tree.
C6_Witness ==
  /\ op = "TensorFlowSwiftAPIs.test"
  /\ result = "returned"
  /\ "artifacts" \in buildDir.files

\* C7: the smoke test starts exactly one command, the checkout script with
\* --config <config path> --source-root <source root> --clone --update, and
\* once that command has exited the test has passed exactly when its status
\* was zero.
C7_SmokeTest ==
  op = "test_update_option" =>
    /\ Len(log) = 1
    /\ log[1].cmd = update_checkout_path
    /\ log[1].argv = << "--config", config_path, "--source-root", source_root,
                        "--clone", "--update" >>
    /\ pc = "idle" =>
         /\ log[1].st = "exited"
         /\ result \in {"passed", "failed"}
         /\ result = "passed" <=> log[1].code = 0

\* C7 witness: the checkout script exited with a non-zero status.
C7_Witness ==
  /\ op = "test_update_option"
  /\ pc = "idle"
  /\ log[1].code # 0
  /\ result = "failed"

\* C8 (as claimed): during a build() for an unrecognized host target no
\* command has been started, no directory created and no file unlinked.
C8_UnknownHostNoSideEffect ==
  (IsBuild /\ ~Recognized(host)) =>
    /\ log = << >>
    /\ buildDir = dir0
    /\ lib = lib0

\* C8 (amended): TensorFlowSwiftAPIs.build rejects an unrecognized host
\* target before any side effect.  TensorFlow.build raises the error only
\* after 'yes' was started and configure and bazel build both exited with
\* status zero, and before anything is unlinked or linked.
C8_UnknownHostRejection ==
  (IsBuild /\ ~Recognized(host)) =>
    /\ buildDir = dir0
    /\ lib = lib0
    /\ op = "TensorFlowSwiftAPIs.build" =>
         log = << >> /\ pc = "idle" /\ result = "RuntimeError"
    /\ op = "TensorFlow.build" =>
         /\ Len(log) >= 1 /\ log[1].cmd = "yes"
         /\ result = "RuntimeError" =>
              /\ Len(log) = 3
              /\ log[2].cmd = configure_script_path /\ Succeeded(2)
              /\ log[3].cmd = toolchain.bazel /\ Succeeded(3)

\* C8 witness: the error of TensorFlow.build, raised after three commands.
C8_Witness ==
  /\ op = "TensorFlow.build"
  /\ ~Recognized(host)
  /\ result = "RuntimeError"
  /\ Len(log) = 3
  /\ lib0 = lib

\* C9: for every recognized host target the file name cmake receives as
\* TensorFlow_LIBRARY is the unsuffixed name TensorFlow.build links
\* (libtensorflow.dylib for macosx*, libtensorflow.so for linux*) under the
\* same directory, cmake generate is issued with that path, and after a
\* TensorFlow.build that returned the path is a link to the suffixed file.
C9_LibraryNamesAgree ==
  /\ \A h \in HostTargets :
       Recognized(h) =>
         /\ lib_name(h) = unsuffixed_lib_name(h)
         /\ lib_name(h) = IF startswith(h, "macosx")
                          THEN "libtensorflow.dylib" ELSE "libtensorflow.so"
         /\ TensorFlow_LIBRARY(h) = symlink_path(h)
  /\ op = "TensorFlowSwiftAPIs.build" /\ Len(log) >= 1 =>
       log[1].argv[14] = "TensorFlow_LIBRARY=" \o symlink_path(host)
  /\ op = "TensorFlow.build" /\ result = "returned" =>
       /\ TensorFlow_LIBRARY(host) \in DOMAIN lib
       /\ lib[TensorFlow_LIBRARY(host)] = LinkTo(symlink_source(host))

\* C9 witness: TensorFlow.build returned on macosx.
C9_Witness ==
  /\ op = "TensorFlow.build"
  /\ startswith(host, "macosx")
  /\ result = "returned"

\* C10: for every host target both should_build answers are the
\* build_tensorflow_swift_apis flag, TensorFlowSwiftAPIs.should_install is
\* the install_tensorflow_swift_apis flag, TensorFlow.should_install is
\* False, and TensorFlow.install returns having started no command.
C10_Gating ==
  /\ \A h \in HostTargets :
       /\ TensorFlow_should_build(h) = TensorFlowSwiftAPIs_should_build(h)
       /\ TensorFlowSwiftAPIs_should_build(h) = args.build_tensorflow_swift_apis
       /\ TensorFlowSwiftAPIs_should_install(h) = args.install_tensorflow_swift_apis
       /\ TensorFlow_should_install(h) = FALSE
  /\ op = "TensorFlow.install" =>
       /\ pc = "idle"
       /\ result = "returned"
       /\ log = << >>
       /\ buildDir = dir0
       /\ lib = lib0

\* C10 witness: TensorFlow.install was called with the two flags differing.
C10_Witness ==
  /\ op = "TensorFlow.install"
  /\ args.install_tensorflow_swift_apis
  /\ ~args.build_tensorflow_swift_apis

====
